---------------------------- MODULE Spec2Model ----------------------------
(***************************************************************************)
(* A model of core/src/toktree.rs: the token trie (TokTrie), its builder   *)
(* (TrieHash), the greedy tokenizer, the binary codec and the              *)
(* recognizer-driven traversals (add_bias, has_valid_extensions,           *)
(* token_allowed).                                                         *)
(*                                                                         *)
(* Conventions.                                                            *)
(*  - A byte is a number in 0..255; a byte string is a sequence of bytes.  *)
(*  - Offsets into Vec's are 0-based as in the source; the TLA+ sequence   *)
(*    holding a Vec is 1-based, so element p of a Vec v is v[p + 1].       *)
(*  - Option::None is written NONE.                                        *)
(*  - Every loop of the source is one action per iteration, sequenced by   *)
(*    pc; a recursion of the source (TrieHash::insert, ::serialize) keeps  *)
(*    its frames in an explicit stack.                                     *)
(*  - Integer arithmetic that can overflow its Rust type has both          *)
(*    outcomes a build can produce: a panic when overflow checks are       *)
(*    compiled in (overflow_checks, the debug profile) and a wrap-around   *)
(*    otherwise (the release profile).                                     *)
(***************************************************************************)
EXTENDS Integers, Sequences, FiniteSets, TLC

\* ------------------------------------------------------------------------
\* Program constants
\* ------------------------------------------------------------------------

NO_TOKEN == 16777215
LEN_BITS == 10
SPECIAL_TOKEN_PREFIX_BYTE == 255
MAGIC == 1435201491
\* size_of::<TokTrieHeader>(): seven u32 fields
HD_SIZE == 28
\* size_of::<TrieNode>(): two u32 fields
NODE_SIZE == 8
\* TrieHash children become a dense 256-slot table above this many
DENSE_THRESHOLD == 250
\* width of the u8 that TrieHash::serialize counts num_parents in
U8_BITS == 8

NONE == -1
\* usize::MAX, the result of a wrapped 0 - 1 on usize.  It is written -1 (the
\* same bit pattern); it is only ever compared against stack depths.
USIZE_MAX == -1

Pow2(n) == 2 ^ n
U8_MOD == Pow2(U8_BITS)
U24_MOD == Pow2(24)

Byte == 0 .. 255

\* ------------------------------------------------------------------------
\* Bounds of the model
\* ------------------------------------------------------------------------

\* most tokens in a vocabulary drawn from WordPool
MaxVocab == 2
\* most strings a recognizer of the model rejects
MaxRej == 1
\* longest proper prefix of a token among the strings a recognizer rejects
MaxRejLen == 3
\* longest `start` handed to a traversal
MaxStartLen == 2
\* longest input handed to greedy_tokenize
MaxInputLen == 3
\* greedy_tokenize is stopped once it has emitted this many tokens
MaxOut == 4
\* most tokens handed to chop_tokens
MaxChop == 2

\* ------------------------------------------------------------------------
\* Sequences
\* ------------------------------------------------------------------------

SubSeqFrom(s, i) == SubSeq(s, i, Len(s))
Prefix(s, n) == SubSeq(s, 1, n)
IsPrefix(p, s) == Len(p) <= Len(s) /\ Prefix(s, Len(p)) = p
Rep(b, n) == [i \in 1 .. n |-> b]
Range(s) == {s[i] : i \in 1 .. Len(s)}
SeqsUpTo(S, n) == UNION {[1 .. k -> S] : k \in 0 .. n}
Max(a, b) == IF a >= b THEN a ELSE b

\* ------------------------------------------------------------------------
\* Vocabularies the model builds tries from
\* ------------------------------------------------------------------------

\* the bytes 'a', 'b', 'c'
Letters == <<97, 98, 99>>
ch_a == Letters[1]
ch_b == Letters[2]
ch_c == Letters[3]

\* words a small vocabulary is drawn from
WordPool ==
  { <<>>, <<ch_a>>, <<ch_b>>, <<ch_a, ch_b>>, <<ch_a, ch_a, ch_a>>,
    <<ch_b, ch_a>>, <<SPECIAL_TOKEN_PREFIX_BYTE, ch_a>> }

SmallVocabs == {w \in SeqsUpTo(WordPool, MaxVocab) : Len(w) >= 1}

\* the concrete scenarios of the specification, and tries of three levels
ScenarioVocabs ==
  { << <<ch_a>>, <<ch_b>>, <<ch_c>> >>,
    << <<ch_a, ch_b>>, <<ch_a, ch_b, ch_c>>, <<ch_a, ch_b, ch_b>> >>,
    << <<ch_a, ch_a, ch_a>>, <<ch_a, ch_b>>, <<ch_b>> >>,
    << <<ch_c, ch_a>>, <<ch_c, ch_a>>, <<>>, <<ch_c>> >> }

\* a token of 2^8 bytes: a chain of last children as deep as a u8 counts
LongWord == Rep(ch_a, U8_MOD)
LongVocab == << LongWord, <<ch_c>> >>
\* the same with the short token twice
LongDupVocab == << LongWord, <<ch_c>>, <<ch_c>> >>
\* the same with an empty token
LongEmptyVocab == << LongWord, <<ch_c>>, <<>> >>

\* every single byte value is a token (ids 0..255), plus the token "abc"
ByteVocab ==
  [i \in 1 .. 257 |-> IF i <= 256 THEN <<i - 1>> ELSE <<ch_a, ch_b, ch_c>>]

\* vocabularies with special tokens (0xFF, then the name)
SpecialVocabs ==
  { << <<SPECIAL_TOKEN_PREFIX_BYTE, ch_a>>, <<SPECIAL_TOKEN_PREFIX_BYTE, ch_b>>,
       <<SPECIAL_TOKEN_PREFIX_BYTE, ch_a, ch_b>>, <<ch_a>> >>,
    << <<SPECIAL_TOKEN_PREFIX_BYTE>>, <<SPECIAL_TOKEN_PREFIX_BYTE, ch_a, ch_b>> >>,
    << <<SPECIAL_TOKEN_PREFIX_BYTE>>, <<ch_b>> >> }

BiasVocabs == SmallVocabs \cup ScenarioVocabs \cup {LongVocab}
GreedyVocabs == SmallVocabs \cup ScenarioVocabs \cup {LongVocab, ByteVocab}
CodecVocabs == SmallVocabs \cup ScenarioVocabs \cup {LongVocab}

\* ------------------------------------------------------------------------
\* State
\* ------------------------------------------------------------------------

VARIABLES
  profile,   \* "any" until an overflow picks the build: "debug" or "release"
  words,     \* the vocabulary handed to TokTrie::from
  pc,        \* where the program is
  hash,      \* the TrieHash tree: an arena of nodes, node 1 the root
  ins,       \* TokTrie::from's loop and the TrieHash::insert call in it
  data,      \* the Vec<TrieNode> that TrieHash::serialize fills
  sstack,    \* the frames of the recursive TrieHash::serialize
  trie,      \* the TokTrie
  fin,       \* finalize_ctor's loop variable tok_id
  gt,        \* the frame of greedy_tokenize
  rec,       \* the recognizer
  op,        \* the locals of the running query
  toks,      \* the token set (SimpleVob) the query writes
  blob,      \* the bytes handed to from_bytes
  orig       \* the trie that was serialized

vars ==
  << profile, words, pc, hash, ins, data, sstack, trie, fin, gt, rec, op,
     toks, blob, orig >>

\* ------------------------------------------------------------------------
\* TrieNode
\* ------------------------------------------------------------------------

\* bits = (token_id << 8) | byte and bits2 = num_parents | (subtree_size << 8)
\* are kept as their four bit fields; token_id << 8 on u32 keeps 24 bits.
TrieNode_new(byte, token_id, num_parents) ==
  [ byte |-> byte, token_id |-> token_id % U24_MOD,
    num_parents |-> num_parents, subtree_size |-> 0 ]

node_token_id(n) == IF n.token_id = NO_TOKEN THEN NONE ELSE n.token_id

\* ------------------------------------------------------------------------
\* TrieHash
\* ------------------------------------------------------------------------

TrieHash_new(byte) == [token_id |-> NO_TOKEN, byte |-> byte, children |-> <<>>]

\* the children of `self` with byte `x`, as positions in self.children
ChildrenWithByte(arena, self, x) ==
  {i \in 1 .. Len(arena[self].children) : arena[arena[self].children[i]].byte = x}

\* if it's getting dense, make it full: 256 slots indexed by byte, the
\* children moved to their slots, fresh TrieHash::new(k) in the others
Densify(arena, self) ==
  LET ch == arena[self].children
      have == {arena[ch[i]].byte : i \in 1 .. Len(ch)}
      missing == Byte \ have
      rank == [k \in missing |-> Cardinality({m \in missing : m < k}) + 1]
      stubs == [j \in 1 .. Cardinality(missing) |->
                  TrieHash_new(CHOOSE k \in missing : rank[k] = j)]
      \* v2[ch.byte] = ch, in the order of the list: the last one stays
      last == [k \in have |->
                 CHOOSE i \in 1 .. Len(ch) :
                   /\ arena[ch[i]].byte = k
                   /\ \A j \in i + 1 .. Len(ch) : arena[ch[j]].byte # k]
      slot(k) == IF k \in have THEN ch[last[k]] ELSE Len(arena) + rank[k]
  IN [arena \o stubs EXCEPT ![self].children = [i \in 1 .. 256 |-> slot(i - 1)]]

\* children.sort_by_key(|e| e.byte): a stable sort
SortByByte(arena, ch) ==
  LET before(i, j) ==
        \/ arena[ch[i]].byte < arena[ch[j]].byte
        \/ arena[ch[i]].byte = arena[ch[j]].byte /\ i < j
      \* <<the place of child i in the sorted list, i>>
      placed == { <<Cardinality({j \in 1 .. Len(ch) : before(j, i)}) + 1, i>> :
                    i \in 1 .. Len(ch) }
  IN [k \in 1 .. Len(ch) |-> ch[(CHOOSE p \in placed : p[1] = k)[2]]]

\* TokRxInfo::new(vocab_size, tok_eos), and TokRxInfo::from_bin, which sets
\* the same fields from a BinTokRxInfo
TokRxInfo_new(vocab_size, tok_eos) ==
  [ vocab_size |-> vocab_size, tok_eos |-> tok_eos, tok_bos |-> NONE,
    tok_pad |-> NONE, tok_unk |-> NONE, tok_end_of_turn |-> NONE ]

\* TokRxInfo::to_bin
to_bin(info) == [vocab_size |-> info.vocab_size, tok_eos |-> info.tok_eos]
from_bin(bin) == TokRxInfo_new(bin.vocab_size, bin.tok_eos)

NoTrie ==
  [ info |-> TokRxInfo_new(0, 0), token_offsets |-> <<>>,
    token_data |-> <<>>, nodes |-> <<>>, max_token_len |-> 0,
    token_duplicates |-> <<>> ]

NoGt ==
  [ bytes |-> <<>>, n |-> 0, last_tok |-> NONE, last_idx |-> 0, idx |-> 0,
    r |-> <<>>, ret |-> "none" ]

NoRec ==
  [ rej |-> {}, stack |-> <<>>, started |-> 0, finished |-> 0,
    pop_err |-> FALSE, fin_depth |-> 0, calls |-> 0, fin_calls |-> 0,
    committed |-> <<>>, collapsed |-> 0, special |-> FALSE, asked |-> 0,
    asked_late |-> FALSE, start_calls |-> 0 ]

NoOp == [name |-> "none"]

\* the tok_eos values a vocabulary is built with
EosChoices(w) == {0, Len(w) - 1}

\* before TokTrie::from(info, words): info.vocab_size == words.len()
InitWith(V) ==
  /\ words \in V
  /\ \E eos \in EosChoices(words) :
       trie = [NoTrie EXCEPT !.info = TokRxInfo_new(Len(words), eos)]
  /\ profile = "any"
  /\ pc = "from"
  /\ hash = << TrieHash_new(SPECIAL_TOKEN_PREFIX_BYTE) >>
  /\ ins = [idx |-> 0, cur |-> 1, pos |-> 0]
  /\ data = <<>>
  /\ sstack = <<>>
  /\ fin = 0
  /\ gt = NoGt
  /\ rec = NoRec
  /\ op = NoOp
  /\ toks = {}
  /\ blob = <<>>
  /\ orig = NoTrie

\* ------------------------------------------------------------------------
\* TokTrie::token and the descriptors
\* ------------------------------------------------------------------------

\* desc = len | (offset << LEN_BITS)
Desc(len, off) == len + off * Pow2(LEN_BITS)
desc_len(d) == d % Pow2(LEN_BITS)
desc_off(d) == d \div Pow2(LEN_BITS)

\* token(idx) slices token_data[off .. off + len]: the slice must be in range
token_in_range(t, idx) ==
  \/ idx >= Len(t.token_offsets)
  \/ LET d == t.token_offsets[idx + 1]
     IN desc_off(d) + desc_len(d) <= Len(t.token_data)

token(t, idx) ==
  IF idx >= Len(t.token_offsets) THEN <<>>
  ELSE LET d == t.token_offsets[idx + 1]
       IN SubSeq(t.token_data, desc_off(d) + 1, desc_off(d) + desc_len(d))

\* ------------------------------------------------------------------------
\* TokTrie::from
\* ------------------------------------------------------------------------

BuildVars == << hash, ins, data, sstack >>
QueryVars == << rec, op, toks, blob, orig >>

\* for (idx, word) in words: if word.len() > 0 { trie.insert(word, idx) }
from_word ==
  /\ pc = "from"
  /\ ins.idx < Len(words)
  /\ pc' = IF Len(words[ins.idx + 1]) > 0 THEN "insert" ELSE "from_push"
  /\ ins' = [ins EXCEPT !.cur = 1, !.pos = 0]
  /\ UNCHANGED << profile, words, hash, data, sstack, trie, fin, gt >>
  /\ UNCHANGED QueryVars

\* one level of TrieHash::insert(&word[pos..], idx) at node ins.cur.  The
\* source pushes a new child, and makes the list dense, after the recursive
\* insert into it has returned; the child's subtree is a chain that the push
\* does not look at, so here the push comes first.
insert_step ==
  /\ pc = "insert"
  /\ LET word == words[ins.idx + 1]
         self == ins.cur
         ch == hash[self].children
     IN IF ins.pos = Len(word) THEN
          /\ hash' = [hash EXCEPT ![self].token_id = ins.idx]
          /\ pc' = "from_push"
          /\ ins' = ins
        ELSE LET x == word[ins.pos + 1]
                 hit == ChildrenWithByte(hash, self, x)
             IN /\ pc' = "insert"
                /\ IF Len(ch) = 256 THEN
                     /\ hash' = hash
                     /\ ins' = [ins EXCEPT !.cur = ch[x + 1], !.pos = ins.pos + 1]
                   ELSE IF hit # {} THEN
                     /\ hash' = hash
                     /\ ins' = [ins EXCEPT
                                  !.cur = ch[CHOOSE i \in hit : \A j \in hit : i <= j],
                                  !.pos = ins.pos + 1]
                   ELSE LET new == Len(hash) + 1
                            pushed == [Append(hash, TrieHash_new(x)) EXCEPT
                                         ![self].children = Append(ch, new)]
                        IN /\ hash' = IF Len(ch) + 1 > DENSE_THRESHOLD
                                        THEN Densify(pushed, self) ELSE pushed
                           /\ ins' = [ins EXCEPT !.cur = new, !.pos = ins.pos + 1]
  /\ UNCHANGED << profile, words, data, sstack, trie, fin, gt >>
  /\ UNCHANGED QueryVars

\* assert!(word.len() < (1 << LEN_BITS));
\* assert!(token_data.len() < (1 << (32 - LEN_BITS)));
\* token_offsets.push(desc); token_data.extend_from_slice(word)
from_push ==
  /\ pc = "from_push"
  /\ LET word == words[ins.idx + 1]
     IN IF Len(word) < Pow2(LEN_BITS) /\ Len(trie.token_data) < Pow2(32 - LEN_BITS)
        THEN /\ trie' = [trie EXCEPT
                          !.token_offsets =
                             Append(@, Desc(Len(word), Len(trie.token_data))),
                          !.token_data = @ \o word]
             /\ ins' = [ins EXCEPT !.idx = ins.idx + 1]
             /\ pc' = "from"
        ELSE /\ pc' = "panic"
             /\ UNCHANGED << trie, ins >>
  /\ UNCHANGED << profile, words, hash, data, sstack, fin, gt >>
  /\ UNCHANGED QueryVars

\* TrieHash::serialize(self, data, num_parents) up to its loop: the node is
\* pushed and the children sorted; the frame it leaves on the stack
SerCall(arena, dat, self, num_parents) ==
  [ arena |-> [arena EXCEPT ![self].children = SortByByte(arena, @)],
    data |-> Append(dat, TrieNode_new(arena[self].byte, arena[self].token_id,
                                      num_parents)),
    frame |-> [ n |-> self, idx |-> Len(dat),
                num_ch |-> Len(arena[self].children), k |-> 1,
                num_parents |-> num_parents ] ]

\* let mut nodes = Vec::new(); trie.serialize(&mut nodes, 0)
from_serialize ==
  /\ pc = "from"
  /\ ins.idx = Len(words)
  /\ LET call == SerCall(hash, <<>>, 1, 0)
     IN /\ hash' = call.arena
        /\ data' = call.data
        /\ sstack' = << call.frame >>
  /\ pc' = "serialize"
  /\ UNCHANGED << profile, words, ins, trie, fin, gt >>
  /\ UNCHANGED QueryVars

\* for entry in &mut self.children { num_ch -= 1; entry.serialize(data, ..) }
\* with the child's count given: the top frame steps on, the child's is pushed
SerRecurse(num_parents) ==
  LET top == sstack[Len(sstack)]
      entry == hash[top.n].children[top.k]
      call == SerCall(hash, data, entry, num_parents)
  IN /\ hash' = call.arena
     /\ data' = call.data
     /\ sstack' = Append([sstack EXCEPT ![Len(sstack)] =
                            [top EXCEPT !.k = top.k + 1, !.num_ch = top.num_ch - 1]],
                         call.frame)
     /\ pc' = "serialize"

SerHasChild ==
  /\ pc = "serialize"
  /\ sstack[Len(sstack)].k <= Len(hash[sstack[Len(sstack)].n].children)

\* if num_ch == 0 { num_parents + 1 } else { 1 }, the sum within u8
serialize_child ==
  /\ SerHasChild
  /\ LET top == sstack[Len(sstack)]
     IN /\ top.num_ch - 1 = 0 => top.num_parents + 1 < U8_MOD
        /\ SerRecurse(IF top.num_ch - 1 = 0 THEN top.num_parents + 1 ELSE 1)
  /\ UNCHANGED << profile, words, ins, trie, fin, gt >>
  /\ UNCHANGED QueryVars

\* num_parents + 1 overflows u8, overflow checks compiled in: the build panics
serialize_overflow_panic ==
  /\ SerHasChild
  /\ LET top == sstack[Len(sstack)]
     IN top.num_ch - 1 = 0 /\ top.num_parents + 1 >= U8_MOD
  /\ profile \in {"any", "debug"}
  /\ profile' = "debug"
  /\ pc' = "panic"
  /\ UNCHANGED << words, hash, ins, data, sstack, trie, fin, gt >>
  /\ UNCHANGED QueryVars

\* num_parents + 1 overflows u8, no overflow checks: the sum wraps
serialize_overflow_wrap ==
  /\ SerHasChild
  /\ LET top == sstack[Len(sstack)]
     IN /\ top.num_ch - 1 = 0 /\ top.num_parents + 1 >= U8_MOD
        /\ SerRecurse((top.num_parents + 1) % U8_MOD)
  /\ profile \in {"any", "release"}
  /\ profile' = "release"
  /\ UNCHANGED << words, ins, trie, fin, gt >>
  /\ UNCHANGED QueryVars

\* data[idx].bits2 |= ((data.len() - idx) as u32) << 8, and the return; the
\* outermost return hands the nodes to the TokTrie and enters finalize_ctor
serialize_return ==
  /\ pc = "serialize"
  /\ LET top == sstack[Len(sstack)]
         done == [data EXCEPT ![top.idx + 1].subtree_size =
                                  (Len(data) - top.idx) % U24_MOD]
     IN /\ top.k > Len(hash[top.n].children)
        /\ data' = done
        /\ sstack' = Prefix(sstack, Len(sstack) - 1)
        /\ IF Len(sstack) = 1
             THEN /\ pc' = "finalize"
                  /\ trie' = [trie EXCEPT !.nodes = done, !.max_token_len = 0,
                                          !.token_duplicates = <<>>]
                  /\ fin' = 0
             ELSE UNCHANGED << pc, trie, fin >>
  /\ UNCHANGED << profile, words, hash, ins, gt >>
  /\ UNCHANGED QueryVars

\* ------------------------------------------------------------------------
\* Packed-trie queries
\* ------------------------------------------------------------------------

node_at(nodes, p) == nodes[p + 1]

\* next_node(n) = node_offset(n) + n.subtree_size()
next_node(nodes, p) == p + node_at(nodes, p).subtree_size

\* The offsets NodeChildren yields for the node at `off`: it starts at off + 1
\* and steps by the subtree_size of the node it is at, up to
\* off + subtree_size.  Offset q is one of them exactly when no node between
\* off and q has a subtree that reaches beyond q's start.
is_child(nodes, off, q) ==
  /\ off < q
  /\ q < next_node(nodes, off)
  /\ \A r \in off + 1 .. q - 1 : next_node(nodes, r) <= q

node_children(nodes, off) ==
  {q \in off + 1 .. next_node(nodes, off) - 1 : is_child(nodes, off, q)}

\* the first child with the byte, or None
child_at_byte(nodes, off, byte) ==
  LET hit == {q \in off + 1 .. next_node(nodes, off) - 1 :
                node_at(nodes, q).byte = byte /\ is_child(nodes, off, q)}
  IN IF hit = {} THEN NONE ELSE CHOOSE q \in hit : \A r \in hit : q <= r

\* the loop of child_at_bytes over bytes[lo..hi] from node n: the first half
\* of the bytes, then the second half from where the first has led
RECURSIVE walk_bytes(_, _, _, _, _)
walk_bytes(nodes, n, bytes, lo, hi) ==
  IF n = NONE \/ lo > hi THEN n
  ELSE IF lo = hi THEN child_at_byte(nodes, n, bytes[lo])
  ELSE LET mid == (lo + hi) \div 2
       IN walk_bytes(nodes, walk_bytes(nodes, n, bytes, lo, mid), bytes,
                     mid + 1, hi)

\* child_at_bytes(root, bytes)
child_at_bytes(nodes, bytes) == walk_bytes(nodes, 0, bytes, 1, Len(bytes))

\* ------------------------------------------------------------------------
\* greedy_tokenize
\* ------------------------------------------------------------------------

\* the call: if bytes.len() == 0 { return r }, else the loop starts at root
GreedyEnter(bytes, ret) ==
  /\ gt' = [ bytes |-> bytes, n |-> 0, last_tok |-> NONE, last_idx |-> 0,
             idx |-> 0, r |-> <<>>, ret |-> ret ]
  /\ pc' = IF Len(bytes) = 0 THEN "greedy_ret" ELSE "greedy_loop"

\* while idx < bytes.len(), Some(c): remember c's token, step down
greedy_some ==
  /\ pc = "greedy_loop"
  /\ gt.idx < Len(gt.bytes)
  /\ LET child == child_at_byte(trie.nodes, gt.n, gt.bytes[gt.idx + 1])
         tok == node_token_id(node_at(trie.nodes, child))
     IN /\ child # NONE
        /\ gt' = [gt EXCEPT
                    !.last_tok = IF tok # NONE THEN tok ELSE @,
                    !.last_idx = IF tok # NONE THEN gt.idx ELSE @,
                    !.n = child,
                    !.idx = gt.idx + 1]
  /\ pc' = "greedy_loop"
  /\ UNCHANGED << profile, words, trie, fin >>
  /\ UNCHANGED BuildVars
  /\ UNCHANGED QueryVars

\* while idx < bytes.len(), None: r.push(last_tok.unwrap()); idx = last_idx;
\* n = self.root(); then idx = idx + 1.  last_tok and last_idx are kept.
greedy_none ==
  /\ pc = "greedy_loop"
  /\ gt.idx < Len(gt.bytes)
  /\ child_at_byte(trie.nodes, gt.n, gt.bytes[gt.idx + 1]) = NONE
  /\ gt.last_tok # NONE
  /\ Len(gt.r) < MaxOut
  /\ gt' = [gt EXCEPT !.r = Append(@, gt.last_tok), !.n = 0,
                      !.idx = gt.last_idx + 1]
  /\ pc' = "greedy_loop"
  /\ UNCHANGED << profile, words, trie, fin >>
  /\ UNCHANGED BuildVars
  /\ UNCHANGED QueryVars

\* after the loop: r.push(last_tok.unwrap()); r
greedy_last ==
  /\ pc = "greedy_loop"
  /\ gt.idx >= Len(gt.bytes)
  /\ gt.last_tok # NONE
  /\ gt' = [gt EXCEPT !.r = Append(@, gt.last_tok)]
  /\ pc' = "greedy_ret"
  /\ UNCHANGED << profile, words, trie, fin >>
  /\ UNCHANGED BuildVars
  /\ UNCHANGED QueryVars

\* last_tok.unwrap() on None, in the loop or after it: a panic
greedy_unwrap_none ==
  /\ pc = "greedy_loop"
  /\ gt.last_tok = NONE
  /\ \/ gt.idx >= Len(gt.bytes)
     \/ /\ gt.idx < Len(gt.bytes)
        /\ child_at_byte(trie.nodes, gt.n, gt.bytes[gt.idx + 1]) = NONE
  /\ pc' = "panic"
  /\ UNCHANGED << profile, words, trie, fin, gt >>
  /\ UNCHANGED BuildVars
  /\ UNCHANGED QueryVars

\* ------------------------------------------------------------------------
\* finalize_ctor and validate
\* ------------------------------------------------------------------------

\* token_duplicates.entry(k).or_insert_with(Vec::new).push(v)
DupPush(m, k, v) ==
  IF k \in DOMAIN m THEN [m EXCEPT ![k] = Append(@, v)]
  ELSE [x \in DOMAIN m \cup {k} |-> IF x = k THEN <<v>> ELSE m[x]]

\* for tok_id in 0..vocab_size: bytes = self.token(tok_id);
\* tok_ids = self.greedy_tokenize(bytes)
finalize_tok ==
  /\ pc = "finalize"
  /\ fin < trie.info.vocab_size
  /\ IF token_in_range(trie, fin)
       THEN GreedyEnter(token(trie, fin), "finalize")
       ELSE pc' = "panic" /\ gt' = gt
  /\ UNCHANGED << profile, words, trie, fin >>
  /\ UNCHANGED BuildVars
  /\ UNCHANGED QueryVars

\* the rest of the loop body, once greedy_tokenize has returned
finalize_after ==
  /\ pc = "greedy_ret"
  /\ gt.ret = "finalize"
  /\ trie' = [trie EXCEPT
                !.max_token_len = Max(@, Len(gt.bytes)),
                !.token_duplicates =
                   IF Len(gt.r) = 1 /\ gt.r[1] # fin
                     THEN DupPush(@, gt.r[1], fin) ELSE @]
  /\ fin' = fin + 1
  /\ pc' = "finalize"
  /\ UNCHANGED << profile, words, gt >>
  /\ UNCHANGED BuildVars
  /\ UNCHANGED QueryVars

\* validate_node's asserts over the walk from the root, which reaches every
\* node of the array: a token is below vocab_size and labels one node only,
\* and a node's subtree ends within the subtree it lies in; then every
\* token(idx) is sliced.
validate(t) ==
  LET offs == 0 .. Len(t.nodes) - 1
      tok(q) == node_token_id(node_at(t.nodes, q))
  IN /\ \A q \in offs : tok(q) # NONE => tok(q) < t.info.vocab_size
     /\ \A q, r \in offs : q # r /\ tok(q) # NONE => tok(q) # tok(r)
     /\ \A q \in offs : \A r \in q + 1 .. next_node(t.nodes, q) - 1 :
          r \in offs /\ next_node(t.nodes, r) <= next_node(t.nodes, q)
     /\ \A idx \in 0 .. t.info.vocab_size - 1 : token_in_range(t, idx)

\* self.validate() at the end of finalize_ctor; the TokTrie is returned, by
\* TokTrie::from ("ready") or by from_bytes ("loaded")
finalize_validate ==
  /\ pc = "finalize"
  /\ fin >= trie.info.vocab_size
  /\ pc' = IF ~validate(trie) THEN "panic"
           ELSE IF op.name = "from_bytes" THEN "loaded" ELSE "ready"
  /\ UNCHANGED << profile, words, trie, fin, gt >>
  /\ UNCHANGED BuildVars
  /\ UNCHANGED QueryVars

\* ------------------------------------------------------------------------
\* The recognizer
\* ------------------------------------------------------------------------
\* The Recognizer trait is implemented outside this file.  The model's
\* recognizer has deterministic byte acceptance: it keeps the stack of the
\* bytes pushed since its current state and refuses a byte exactly when the
\* stack with that byte is one of the strings in rec.rej.  rec.committed are
\* the bytes that collapse() has made part of the current state; rec.calls
\* counts the try_push_byte and pop_bytes calls made on the recognizer.

\* try_push_byte(byte): would the byte be pushed?
accepts(r, byte) == Append(r.committed \o r.stack, byte) \notin r.rej

\* try_push_byte(byte) returning true
push_byte(r, byte) == [r EXCEPT !.stack = Append(@, byte), !.calls = @ + 1]

\* try_push_byte(byte) returning false
refuse_byte(r) == [r EXCEPT !.calls = @ + 1]

\* pop_bytes(num): for _ in 0..num { stack.pop() }.  Popping more than was
\* pushed is recorded in pop_err.
pop_bytes(r, num) ==
  IF num = USIZE_MAX \/ num > Len(r.stack)
    THEN [r EXCEPT !.stack = <<>>, !.pop_err = TRUE, !.calls = @ + 1]
    ELSE [r EXCEPT !.stack = Prefix(@, Len(@) - num), !.calls = @ + 1]

\* trie_started(): start_calls is the number of try_push_byte and pop_bytes
\* calls made before it
trie_started(r) == [r EXCEPT !.started = @ + 1, !.start_calls = r.calls]

\* trie_finished(): fin_depth is the number of bytes still pushed when it is
\* called and fin_calls the number of try_push_byte and pop_bytes calls made
\* before it; the recognizer then pops what is left
trie_finished(r) ==
  [r EXCEPT !.finished = @ + 1, !.fin_depth = Len(r.stack), !.stack = <<>>,
            !.fin_calls = r.calls]

\* special_allowed(EndOfSentence): the answer is r.special.  asked_late
\* records a query made once the traversal has been started or a byte tried.
special_allowed(r) ==
  [r EXCEPT !.asked = @ + 1,
            !.asked_late = @ \/ r.started > 0 \/ r.calls > 0]

Min(x, y) == IF x <= y THEN x ELSE y

\* the non-empty prefixes, of at most n bytes, of the tokens
PathsUpTo(w, n) ==
  UNION { {Prefix(w[i], k) : k \in 1 .. Min(Len(w[i]), n)} : i \in 1 .. Len(w) }
FullWords(w) == {w[i] : i \in 1 .. Len(w)} \ {<<>>}
\* strings a recognizer may refuse: token prefixes, tokens, two tokens in a row
RejStrings(w) ==
  PathsUpTo(w, MaxRejLen)
    \cup FullWords(w)
    \cup {x \o y : x \in FullWords(w), y \in FullWords(w)}

Recognizers(w) == {R \in SUBSET RejStrings(w) : Cardinality(R) <= MaxRej}

\* the `start` arguments: token prefixes, and tokens with one more byte
Starts(w) ==
  {<<>>} \cup PathsUpTo(w, MaxStartLen)
    \cup {x \o <<ch_c>> : x \in {y \in FullWords(w) : Len(y) < MaxStartLen}}

\* a query starts with the recognizer in its current state
NewRec(rej) == [NoRec EXCEPT !.rej = rej]

\* ------------------------------------------------------------------------
\* prefix_token_id, token_id
\* ------------------------------------------------------------------------

\* prefix_token_id(bytes) -> (tok, len): after i bytes the walk is at node
\* walk[i].n with walk[i].last the last (token, length) seen; None ends it
prefix_token_id(nodes, bytes) ==
  LET walk[i \in 0 .. Len(bytes)] ==
        IF i = 0 THEN [n |-> 0, last |-> <<0, 0>>]
        ELSE LET prev == walk[i - 1]
                 child == IF prev.n = NONE THEN NONE
                          ELSE child_at_byte(nodes, prev.n, bytes[i])
                 tok == IF child = NONE THEN NONE
                        ELSE node_token_id(node_at(nodes, child))
             IN [ n |-> child,
                  last |-> IF tok # NONE THEN <<tok, i>> ELSE prev.last ]
  IN walk[Len(bytes)].last

\* token_id(bytes): Some(tok) if the whole of bytes is the token
token_id(nodes, bytes) ==
  LET found == prefix_token_id(nodes, bytes)
  IN IF found[2] = Len(bytes) THEN found[1] ELSE NONE

\* ------------------------------------------------------------------------
\* add_bias
\* ------------------------------------------------------------------------

BuiltVars == << profile, words, trie, fin, gt >>

\* all prefixes of 'start' are also allowed
StartPrefixTokens(nodes, start) ==
  {token_id(nodes, Prefix(start, len)) : len \in 1 .. Len(start)} \ {NONE}

\* the locals of the traversal from the node at `off`
Traversal(name, start, off, toks0) ==
  [ name |-> name, start |-> start, toks0 |-> toks0, node |-> off,
    p |-> off + 1, endp |-> next_node(trie.nodes, off), next_pop |-> 0,
    ok |-> FALSE, after |-> "none", caller |-> "none" ]

\* a query that returns before it touches the recognizer
NoTraversal(name, start, toks0) ==
  [ name |-> name, start |-> start, toks0 |-> toks0, node |-> NONE,
    p |-> 0, endp |-> 0, next_pop |-> 0, ok |-> FALSE, after |-> "none",
    caller |-> "none" ]

\* add_bias(r, toks, start) up to the call of add_bias_inner
add_bias_enter ==
  /\ pc = "ready"
  /\ \E start \in Starts(words), rej \in Recognizers(words),
        toks0 \in {{}, {trie.info.tok_eos}} :
       LET n == child_at_bytes(trie.nodes, start)
           allowed == toks0 \cup StartPrefixTokens(trie.nodes, start)
       IN /\ toks' = allowed
          /\ IF n = NONE
               THEN /\ rec' = NewRec(rej)
                    /\ op' = NoTraversal("add_bias", start, toks0)
                    /\ pc' = "done"
               ELSE /\ rec' = trie_started(NewRec(rej))
                    /\ op' = Traversal("add_bias", start, n, toks0)
                    /\ pc' = "bias_loop"
  /\ UNCHANGED << blob, orig >>
  /\ UNCHANGED BuiltVars
  /\ UNCHANGED BuildVars

\* what a traversal's loop body reads: the node at p, and the recognizer
\* after r.pop_bytes(next_pop)
LoopNode == node_at(trie.nodes, op.p)
LoopPopped == pop_bytes(rec, op.next_pop)
InLoop(at) == pc = at /\ op.p < op.endp

\* add_bias_inner, try_push_byte(b) true: the token (or the fake token
\* vocab_size) is allowed; a leaf leaves its num_parents to pop
bias_accept ==
  /\ InLoop("bias_loop")
  /\ accepts(LoopPopped, LoopNode.byte)
  /\ rec' = push_byte(LoopPopped, LoopNode.byte)
  /\ toks' = toks \cup
       {IF node_token_id(LoopNode) # NONE THEN node_token_id(LoopNode)
        ELSE trie.info.vocab_size}
  /\ op' = [op EXCEPT
              !.next_pop = IF LoopNode.subtree_size = 1
                             THEN LoopNode.num_parents ELSE 0,
              !.p = op.p + 1]
  /\ UNCHANGED << pc, blob, orig >>
  /\ UNCHANGED BuiltVars
  /\ UNCHANGED BuildVars

\* the else branch of a traversal's loop: p += n.subtree_size();
\* next_pop = n.num_parents() - 1
LoopReject(next_pop) ==
  /\ rec' = refuse_byte(LoopPopped)
  /\ op' = [op EXCEPT !.p = op.p + LoopNode.subtree_size, !.next_pop = next_pop]

\* the two loops that share the else branch
TraversalLoops == {"bias_loop", "hve_loop"}

\* try_push_byte(b) false, in add_bias_inner or has_valid_extensions
loop_reject ==
  /\ \E at \in TraversalLoops : InLoop(at)
  /\ ~accepts(LoopPopped, LoopNode.byte)
  /\ LoopNode.num_parents >= 1
  /\ LoopReject(LoopNode.num_parents - 1)
  /\ UNCHANGED << pc, toks, blob, orig >>
  /\ UNCHANGED BuiltVars
  /\ UNCHANGED BuildVars

\* n.num_parents() - 1 with num_parents 0: only a build without overflow
\* checks produces such a node, and there the result is usize::MAX
loop_reject_underflow_wrap ==
  /\ \E at \in TraversalLoops : InLoop(at)
  /\ ~accepts(LoopPopped, LoopNode.byte)
  /\ LoopNode.num_parents = 0
  /\ profile \in {"any", "release"}
  /\ profile' = "release"
  /\ LoopReject(USIZE_MAX)
  /\ UNCHANGED << words, trie, fin, gt, pc, toks, blob, orig >>
  /\ UNCHANGED BuildVars

\* add_bias after add_bias_inner has returned next_pop: the pop when start
\* is empty, trie_finished(), and the fake token reverted
add_bias_exit ==
  /\ pc = "bias_loop"
  /\ op.p >= op.endp
  /\ rec' = trie_finished(IF Len(op.start) = 0 THEN pop_bytes(rec, op.next_pop)
                          ELSE rec)
  /\ toks' = toks \ {trie.info.vocab_size}
  /\ pc' = "done"
  /\ UNCHANGED << op, blob, orig >>
  /\ UNCHANGED BuiltVars
  /\ UNCHANGED BuildVars

\* ------------------------------------------------------------------------
\* has_valid_extensions
\* ------------------------------------------------------------------------

\* has_valid_extensions(r, start) up to its loop
hve_enter ==
  /\ pc = "ready"
  /\ \E start \in Starts(words), rej \in Recognizers(words) :
       LET n == child_at_bytes(trie.nodes, start)
       IN IF n = NONE
            THEN /\ rec' = NewRec(rej)
                 /\ op' = NoTraversal("has_valid_extensions", start, {})
                 /\ pc' = "done"
            ELSE /\ rec' = trie_started(NewRec(rej))
                 /\ op' = Traversal("has_valid_extensions", start, n, {})
                 /\ pc' = "hve_loop"
  /\ UNCHANGED << toks, blob, orig >>
  /\ UNCHANGED BuiltVars
  /\ UNCHANGED BuildVars

\* has_valid_extensions(r, start) called after add_bias(r, toks, start) has
\* returned, with the same start and the recognizer in the state add_bias
\* was given; toks keeps what add_bias left
hve_after_add_bias ==
  /\ pc = "done"
  /\ op.name = "add_bias"
  /\ op.after = "none"
  /\ op.caller = "none"
  /\ op.toks0 = {}
  /\ LET n == child_at_bytes(trie.nodes, op.start)
     IN IF n = NONE
          THEN /\ rec' = NewRec(rec.rej)
               /\ op' = [NoTraversal("has_valid_extensions", op.start, {})
                          EXCEPT !.after = "add_bias"]
               /\ pc' = "done"
          ELSE /\ rec' = trie_started(NewRec(rec.rej))
               /\ op' = [Traversal("has_valid_extensions", op.start, n, {})
                          EXCEPT !.after = "add_bias"]
               /\ pc' = "hve_loop"
  /\ UNCHANGED << toks, blob, orig >>
  /\ UNCHANGED BuiltVars
  /\ UNCHANGED BuildVars

\* try_push_byte(b) true: a token ends the loop (ok = true; break), p and
\* next_pop as they are; else as in add_bias_inner
hve_accept ==
  /\ InLoop("hve_loop")
  /\ accepts(LoopPopped, LoopNode.byte)
  /\ rec' = push_byte(LoopPopped, LoopNode.byte)
  /\ IF node_token_id(LoopNode) # NONE
       THEN /\ op' = [op EXCEPT !.ok = TRUE]
            /\ pc' = "hve_break"
       ELSE /\ op' = [op EXCEPT
                        !.next_pop = IF LoopNode.subtree_size = 1
                                       THEN LoopNode.num_parents ELSE 0,
                        !.p = op.p + 1]
            /\ pc' = pc
  /\ UNCHANGED << toks, blob, orig >>
  /\ UNCHANGED BuiltVars
  /\ UNCHANGED BuildVars

\* has_valid_extensions returning true from inside its loop instead of
\* breaking out of it
hve_exit_return_in_loop ==
  /\ \/ /\ pc = "hve_loop" /\ op.p >= op.endp
        /\ rec' = trie_finished(IF Len(op.start) = 0
                                  THEN pop_bytes(rec, op.next_pop) ELSE rec)
     \/ /\ pc = "hve_break"
        /\ rec' = rec
  /\ pc' = "done"
  /\ UNCHANGED << op, toks, blob, orig >>
  /\ UNCHANGED BuiltVars
  /\ UNCHANGED BuildVars

\* after the loop: the pop when start is empty, trie_finished(), ok
hve_exit ==
  /\ \/ pc = "hve_loop" /\ op.p >= op.endp
     \/ pc = "hve_break"
  /\ rec' = trie_finished(IF Len(op.start) = 0 THEN pop_bytes(rec, op.next_pop)
                          ELSE rec)
  /\ pc' = "done"
  /\ UNCHANGED << op, toks, blob, orig >>
  /\ UNCHANGED BuiltVars
  /\ UNCHANGED BuildVars

\* ------------------------------------------------------------------------
\* token_allowed
\* ------------------------------------------------------------------------

\* token_allowed(r, t): bytes = self.token(t); r.trie_started()
token_allowed_enter ==
  /\ pc = "ready"
  /\ \E t \in 0 .. trie.info.vocab_size, rej \in Recognizers(words) :
       /\ rec' = trie_started(NewRec(rej))
       /\ op' = [ name |-> "token_allowed", t |-> t, bytes |-> token(trie, t),
                  i |-> 0, num |-> 0, ok |-> TRUE ]
  /\ pc' = "ta_loop"
  /\ UNCHANGED << toks, blob, orig >>
  /\ UNCHANGED BuiltVars
  /\ UNCHANGED BuildVars

\* for &byte in bytes: num += 1 if the byte is pushed, else ok = false; break
token_allowed_byte ==
  /\ pc = "ta_loop"
  /\ op.i < Len(op.bytes)
  /\ LET byte == op.bytes[op.i + 1]
     IN IF accepts(rec, byte)
          THEN /\ rec' = push_byte(rec, byte)
               /\ op' = [op EXCEPT !.num = op.num + 1, !.i = op.i + 1]
               /\ pc' = pc
          ELSE /\ rec' = refuse_byte(rec)
               /\ op' = [op EXCEPT !.ok = FALSE]
               /\ pc' = "ta_break"
  /\ UNCHANGED << toks, blob, orig >>
  /\ UNCHANGED BuiltVars
  /\ UNCHANGED BuildVars

\* r.pop_bytes(num); r.trie_finished(); ok
token_allowed_exit ==
  /\ \/ pc = "ta_loop" /\ op.i >= Len(op.bytes)
     \/ pc = "ta_break"
  /\ rec' = trie_finished(pop_bytes(rec, op.num))
  /\ pc' = "done"
  /\ UNCHANGED << op, toks, blob, orig >>
  /\ UNCHANGED BuiltVars
  /\ UNCHANGED BuildVars

\* the recognizer-driven queries
Bias ==
  \/ add_bias_enter
  \/ bias_accept
  \/ add_bias_exit
  \/ hve_enter
  \/ hve_after_add_bias
  \/ hve_accept
  \/ hve_exit
  \/ loop_reject
  \/ loop_reject_underflow_wrap
  \/ token_allowed_enter
  \/ token_allowed_byte
  \/ token_allowed_exit

\* ------------------------------------------------------------------------
\* compute_bias_ext, apply_duplicates
\* ------------------------------------------------------------------------

\* what the caller's logits hold at the call: nothing, or every token
LogitsBefore == {{}, 0 .. trie.info.vocab_size - 1}

\* the call compute_bias_ext(r, logits, start)
compute_bias_ext_enter ==
  /\ pc = "ready"
  /\ \E start \in Starts(words), rej \in Recognizers(words),
        special \in BOOLEAN, logits \in LogitsBefore :
       /\ rec' = [NewRec(rej) EXCEPT !.special = special]
       /\ toks' = logits
       /\ op' = [name |-> "compute_bias_ext", start |-> start,
                 caller |-> "none"]
  /\ pc' = "cb_clear"
  /\ UNCHANGED << blob, orig >>
  /\ UNCHANGED BuiltVars
  /\ UNCHANGED BuildVars

\* logits.set_all(false)
compute_bias_ext_clear ==
  /\ pc = "cb_clear"
  /\ toks' = {}
  /\ pc' = "cb_eos"
  /\ UNCHANGED << rec, op, blob, orig >>
  /\ UNCHANGED BuiltVars
  /\ UNCHANGED BuildVars

\* the recognizer is asked about every start
EosQueriedAlways(start) == TRUE

\* if start.is_empty()
EosQueried(start) == start = <<>>

\* special_token(EndOfSentence)
special_token_eos(t) == t.info.tok_eos

\* EOS is only allowed if there is no forced byte prefix
compute_bias_ext_eos ==
  /\ pc = "cb_eos"
  /\ IF EosQueried(op.start)
       THEN /\ rec' = special_allowed(rec)
            /\ toks' = IF rec.special THEN toks \cup {special_token_eos(trie)}
                       ELSE toks
       ELSE UNCHANGED << rec, toks >>
  /\ pc' = "cb_add_bias"
  /\ UNCHANGED << op, blob, orig >>
  /\ UNCHANGED BuiltVars
  /\ UNCHANGED BuildVars

\* self.add_bias(r, logits, start), up to the call of add_bias_inner
compute_bias_ext_add_bias ==
  /\ pc = "cb_add_bias"
  /\ LET n == child_at_bytes(trie.nodes, op.start)
     IN /\ toks' = toks \cup StartPrefixTokens(trie.nodes, op.start)
        /\ IF n = NONE
             THEN /\ rec' = rec
                  /\ op' = [NoTraversal("add_bias", op.start, toks)
                             EXCEPT !.caller = "compute_bias_ext"]
                  /\ pc' = "done"
             ELSE /\ rec' = trie_started(rec)
                  /\ op' = [Traversal("add_bias", op.start, n, toks)
                             EXCEPT !.caller = "compute_bias_ext"]
                  /\ pc' = "bias_loop"
  /\ UNCHANGED << blob, orig >>
  /\ UNCHANGED BuiltVars
  /\ UNCHANGED BuildVars

\* the ids that the allowed keys of the duplicate map stand for
Mirrored(dups, allowed) ==
  UNION {Range(dups[k]) : k \in DOMAIN dups \cap allowed}

\* self.apply_duplicates(logits), and compute_bias_ext returns
apply_duplicates ==
  /\ pc = "done"
  /\ op.name = "add_bias"
  /\ op.caller = "compute_bias_ext"
  /\ toks' = toks \cup Mirrored(trie.token_duplicates, toks)
  /\ op' = [op EXCEPT !.name = "compute_bias_ext"]
  /\ UNCHANGED << pc, rec, blob, orig >>
  /\ UNCHANGED BuiltVars
  /\ UNCHANGED BuildVars

Compute ==
  \/ compute_bias_ext_enter
  \/ compute_bias_ext_clear
  \/ compute_bias_ext_eos
  \/ compute_bias_ext_add_bias
  \/ bias_accept
  \/ loop_reject
  \/ loop_reject_underflow_wrap
  \/ add_bias_exit
  \/ apply_duplicates

\* ------------------------------------------------------------------------
\* chop_tokens
\* ------------------------------------------------------------------------

\* the locals of chop_tokens
ChopFrame(tokens, idx, suff, chop_tokens, chop_bytes) ==
  [ name |-> "chop_tokens", tokens |-> tokens, idx |-> idx, suff |-> suff,
    chop_tokens |-> chop_tokens, chop_bytes |-> chop_bytes, caller |-> "none" ]

\* a traversal called from chop_tokens, which keeps its locals in `frame`
WithFrame(tr, frame) ==
  [x \in DOMAIN tr \cup {"frame"} |->
     IF x = "frame" THEN frame
     ELSE IF x = "caller" THEN "chop_tokens" ELSE tr[x]]

\* the call chop_tokens(r, tokens)
chop_tokens_enter ==
  /\ pc = "ready"
  /\ \E tokens \in SeqsUpTo(0 .. trie.info.vocab_size - 1, MaxChop),
        rej \in Recognizers(words) :
       /\ rec' = NewRec(rej)
       /\ op' = ChopFrame(tokens, 0, <<>>, 0, 0)
  /\ pc' = "chop_loop"
  /\ UNCHANGED << toks, blob, orig >>
  /\ UNCHANGED BuiltVars
  /\ UNCHANGED BuildVars

\* the count recorded with the 0-based index of the probe
ChopCountFromZero(idx) == idx

\* chop_tokens = idx + 1
ChopCount(idx) == idx + 1

\* for (idx, t) in tokens.iter().rev().enumerate(): the token's bytes go in
\* front of suff; a suff longer than max_token_len ends the loop and
\* chop_tokens returns; else has_valid_extensions(r, &suff) is called, the
\* recognizer being in the state it had before the last traversal
chop_tokens_step ==
  /\ pc = "chop_loop"
  /\ op.idx < Len(op.tokens)
  /\ LET t == op.tokens[Len(op.tokens) - op.idx]
         suff == token(trie, t) \o op.suff
         frame == [op EXCEPT !.suff = suff]
         n == child_at_bytes(trie.nodes, suff)
     IN IF Len(suff) > trie.max_token_len
          THEN /\ op' = frame
               /\ rec' = rec
               /\ pc' = "done"
          ELSE IF n = NONE
          THEN /\ op' = WithFrame(NoTraversal("has_valid_extensions", suff, {}),
                                  frame)
               /\ rec' = NewRec(rec.rej)
               /\ pc' = "done"
          ELSE /\ op' = WithFrame(Traversal("has_valid_extensions", suff, n, {}),
                                  frame)
               /\ rec' = trie_started(NewRec(rec.rej))
               /\ pc' = "hve_loop"
  /\ UNCHANGED << toks, blob, orig >>
  /\ UNCHANGED BuiltVars
  /\ UNCHANGED BuildVars

\* has_valid_extensions has returned to chop_tokens: if it is true,
\* chop_tokens = idx + 1 and chop_bytes = suff.len()
chop_tokens_after ==
  /\ pc = "done"
  /\ op.name = "has_valid_extensions"
  /\ op.caller = "chop_tokens"
  /\ op' = [op.frame EXCEPT
              !.chop_tokens = IF op.ok THEN ChopCount(op.frame.idx) ELSE @,
              !.chop_bytes = IF op.ok THEN Len(op.frame.suff) ELSE @,
              !.idx = @ + 1]
  /\ pc' = "chop_loop"
  /\ UNCHANGED << rec, toks, blob, orig >>
  /\ UNCHANGED BuiltVars
  /\ UNCHANGED BuildVars

\* the loop is over: (chop_tokens, chop_bytes)
chop_tokens_return ==
  /\ pc = "chop_loop"
  /\ op.idx >= Len(op.tokens)
  /\ pc' = "done"
  /\ UNCHANGED << op, rec, toks, blob, orig >>
  /\ UNCHANGED BuiltVars
  /\ UNCHANGED BuildVars

Chop ==
  \/ chop_tokens_enter
  \/ chop_tokens_step
  \/ hve_accept
  \/ loop_reject
  \/ loop_reject_underflow_wrap
  \/ hve_exit
  \/ chop_tokens_after
  \/ chop_tokens_return

\* ------------------------------------------------------------------------
\* append_tokens, append_token
\* ------------------------------------------------------------------------

MaxAppend == 2

\* collapse() with the pushed bytes dropped instead of kept
collapse_dropping(r) == [r EXCEPT !.stack = <<>>, !.collapsed = @ + 1]

\* collapse(): the state reached by the pushed bytes becomes the
\* recognizer's current state
collapse(r) ==
  [r EXCEPT !.committed = @ \o r.stack, !.stack = <<>>, !.collapsed = @ + 1]

\* append_tokens(r, ts)
append_tokens_enter ==
  /\ pc = "ready"
  /\ \E ts \in SeqsUpTo(0 .. trie.info.vocab_size - 1, MaxAppend),
        rej \in Recognizers(words) :
       /\ rec' = NewRec(rej)
       /\ op' = [ name |-> "append_tokens", ts |-> ts, k |-> 0,
                  bytes |-> <<>>, i |-> 0, err |-> FALSE, byte |-> 0 ]
  /\ pc' = "at_next"
  /\ UNCHANGED << toks, blob, orig >>
  /\ UNCHANGED BuiltVars
  /\ UNCHANGED BuildVars

\* for t in ts: append_token(r, *t) begins with bytes = self.token(t)
append_token_enter ==
  /\ pc = "at_next"
  /\ op.k < Len(op.ts)
  /\ op' = [op EXCEPT !.bytes = token(trie, op.ts[op.k + 1]), !.i = 0]
  /\ pc' = "at_loop"
  /\ UNCHANGED << rec, toks, blob, orig >>
  /\ UNCHANGED BuiltVars
  /\ UNCHANGED BuildVars

\* for &byte in bytes: a refused byte ends append_token with r.collapse() and
\* the error for that byte, which `?` makes the result of append_tokens
append_token_byte ==
  /\ pc = "at_loop"
  /\ op.i < Len(op.bytes)
  /\ LET byte == op.bytes[op.i + 1]
     IN IF accepts(rec, byte)
          THEN /\ rec' = push_byte(rec, byte)
               /\ op' = [op EXCEPT !.i = op.i + 1]
               /\ pc' = pc
          ELSE /\ rec' = collapse(refuse_byte(rec))
               /\ op' = [op EXCEPT !.err = TRUE, !.byte = byte]
               /\ pc' = "done"
  /\ UNCHANGED << toks, blob, orig >>
  /\ UNCHANGED BuiltVars
  /\ UNCHANGED BuildVars

\* every byte pushed: r.collapse(); Ok(()) and on to the next token
append_token_ok ==
  /\ pc = "at_loop"
  /\ op.i >= Len(op.bytes)
  /\ rec' = collapse(rec)
  /\ op' = [op EXCEPT !.k = op.k + 1]
  /\ pc' = "at_next"
  /\ UNCHANGED << toks, blob, orig >>
  /\ UNCHANGED BuiltVars
  /\ UNCHANGED BuildVars

\* the loop of append_tokens is over: Ok(())
append_tokens_ok ==
  /\ pc = "at_next"
  /\ op.k >= Len(op.ts)
  /\ pc' = "done"
  /\ UNCHANGED QueryVars
  /\ UNCHANGED BuiltVars
  /\ UNCHANGED BuildVars

AppendTokens ==
  \/ append_tokens_enter
  \/ append_token_enter
  \/ append_token_byte
  \/ append_token_ok
  \/ append_tokens_ok


\* ------------------------------------------------------------------------
\* greedy_tokenize as a query, decode_raw
\* ------------------------------------------------------------------------

\* the inputs: the byte strings over 'a', 'b', 'c' and the last byte value
InputBytes == {ch_a, ch_b, ch_c, SPECIAL_TOKEN_PREFIX_BYTE - 1}
Inputs == SeqsUpTo(InputBytes, MaxInputLen)

greedy_enter ==
  /\ pc = "ready"
  /\ \E bytes \in Inputs : GreedyEnter(bytes, "query")
  /\ op' = [name |-> "greedy_tokenize"]
  /\ UNCHANGED << profile, words, trie, fin, rec, toks, blob, orig >>
  /\ UNCHANGED BuildVars

\* greedy_tokenize returns r to the caller
greedy_return ==
  /\ pc = "greedy_ret"
  /\ gt.ret = "query"
  /\ pc' = "done"
  /\ UNCHANGED << op, rec, toks, blob, orig >>
  /\ UNCHANGED BuiltVars
  /\ UNCHANGED BuildVars

\* decode_raw(tokens): tokens.iter().flat_map(|t| self.token(*t)).collect()
decode_raw(t, tokens) ==
  LET cat[i \in 0 .. Len(tokens)] ==
        IF i = 0 THEN <<>> ELSE cat[i - 1] \o token(t, tokens[i])
  IN cat[Len(tokens)]

Greedy ==
  \/ greedy_enter
  \/ greedy_none
  \/ greedy_unwrap_none
  \/ greedy_return

\* ------------------------------------------------------------------------
\* get_special_tokens
\* ------------------------------------------------------------------------

\* the elements of a set of offsets in ascending order
Ascending(S) ==
  [k \in 1 .. Cardinality(S) |->
     CHOOSE q \in S : Cardinality({r \in S : r < q}) = k - 1]

\* the token ids of the nodes at the offsets, in order, nodes without skipped
TokensAt(nodes, offs) ==
  LET got[i \in 0 .. Len(offs)] ==
        IF i = 0 THEN <<>>
        ELSE LET tok == node_token_id(node_at(nodes, offs[i]))
             IN IF tok # NONE THEN Append(got[i - 1], tok) ELSE got[i - 1]
  IN got[Len(offs)]

\* get_special_tokens() up to its loop: the 0xFF child of the root is
\* expected to exist
get_special_tokens_enter ==
  /\ pc = "ready"
  /\ LET pref_node == child_at_byte(trie.nodes, 0, SPECIAL_TOKEN_PREFIX_BYTE)
     IN /\ op' = [ name |-> "get_special_tokens", res |-> <<>>,
                   stack |-> IF pref_node = NONE THEN <<>> ELSE <<pref_node>> ]
        /\ pc' = IF pref_node = NONE THEN "panic" ELSE "gst_loop"
  /\ UNCHANGED << rec, toks, blob, orig >>
  /\ UNCHANGED BuiltVars
  /\ UNCHANGED BuildVars

\* while let Some(n) = stack.pop(): the tokens of n's children are pushed
\* to res, the children to the stack
get_special_tokens_visit ==
  /\ pc = "gst_loop"
  /\ op.stack # <<>>
  /\ LET n == op.stack[Len(op.stack)]
         children == Ascending(node_children(trie.nodes, n))
     IN op' = [op EXCEPT
                 !.res = @ \o TokensAt(trie.nodes, children),
                 !.stack = Prefix(@, Len(@) - 1) \o children]
  /\ UNCHANGED << pc, rec, toks, blob, orig >>
  /\ UNCHANGED BuiltVars
  /\ UNCHANGED BuildVars

\* res.remove(0), which panics on an empty res; res
get_special_tokens_exit ==
  /\ pc = "gst_loop"
  /\ op.stack = <<>>
  /\ IF op.res = <<>>
       THEN pc' = "panic" /\ op' = op
       ELSE pc' = "done" /\ op' = [op EXCEPT !.res = Tail(@)]
  /\ UNCHANGED << rec, toks, blob, orig >>
  /\ UNCHANGED BuiltVars
  /\ UNCHANGED BuildVars

Special ==
  \/ get_special_tokens_enter
  \/ get_special_tokens_visit
  \/ get_special_tokens_exit

\* ------------------------------------------------------------------------
\* serialize and from_bytes
\* ------------------------------------------------------------------------

\* a u32 as its four little-endian bytes, and back
U32LE(x) ==
  << x % 256, (x \div 256) % 256, (x \div 65536) % 256, (x \div 16777216) % 256 >>
U32At(bytes, off) ==
  bytes[off + 1] + 256 * bytes[off + 2] + 65536 * bytes[off + 3]
    + 16777216 * bytes[off + 4]

\* a TrieNode written with only the low 16 bits of its token id
NodeBytesShortId(n) ==
  << n.byte, n.token_id % 256, (n.token_id \div 256) % 256, 0,
     n.num_parents, n.subtree_size % 256, (n.subtree_size \div 256) % 256,
     n.subtree_size \div 65536 >>

\* a TrieNode as bytes: bits (byte, token id), then bits2 (num_parents,
\* subtree size)
NodeBytes(n) ==
  << n.byte, n.token_id % 256, (n.token_id \div 256) % 256, n.token_id \div 65536,
     n.num_parents, n.subtree_size % 256, (n.subtree_size \div 256) % 256,
     n.subtree_size \div 65536 >>

\* bytemuck::cast_slice(&self.nodes), cast_slice(&self.token_offsets)
NodesBytes(nodes) ==
  [i \in 1 .. NODE_SIZE * Len(nodes) |->
     NodeBytes(nodes[((i - 1) \div NODE_SIZE) + 1])[((i - 1) % NODE_SIZE) + 1]]
OffsetsBytes(offs) ==
  [i \in 1 .. 4 * Len(offs) |-> U32LE(offs[((i - 1) \div 4) + 1])[((i - 1) % 4) + 1]]

\* the TokTrieHeader that serialize() writes
Header(t) ==
  [ magic |-> MAGIC,
    hd_size |-> HD_SIZE,
    trie_bytes |-> Len(NodesBytes(t.nodes)),
    token_offset_bytes |-> Len(OffsetsBytes(t.token_offsets)),
    token_data_bytes |-> Len(NodesBytes(t.nodes)),
    info |-> to_bin(t.info) ]

\* bytemuck::bytes_of(&hd)
HeaderBytes(hd) ==
  U32LE(hd.magic) \o U32LE(hd.hd_size) \o U32LE(hd.trie_bytes)
    \o U32LE(hd.token_offset_bytes) \o U32LE(hd.token_data_bytes)
    \o U32LE(hd.info.vocab_size) \o U32LE(hd.info.tok_eos)

\* serialize(): header, nodes, descriptors, token data
Serialize(t) ==
  HeaderBytes(Header(t)) \o NodesBytes(t.nodes) \o OffsetsBytes(t.token_offsets)
    \o t.token_data

\* bytemuck::from_bytes(&bytes[0..pref])
ParseHeader(bytes) ==
  [ magic |-> U32At(bytes, 0),
    hd_size |-> U32At(bytes, 4),
    trie_bytes |-> U32At(bytes, 8),
    token_offset_bytes |-> U32At(bytes, 12),
    token_data_bytes |-> U32At(bytes, 16),
    info |-> [vocab_size |-> U32At(bytes, 20), tok_eos |-> U32At(bytes, 24)] ]

\* eight bytes as a TrieNode: byte(), token_id(), num_parents(),
\* subtree_size() of bits and bits2
NodeFromBytes(x) ==
  [ byte |-> x[1], token_id |-> x[2] + 256 * x[3] + 65536 * x[4],
    num_parents |-> x[5], subtree_size |-> x[6] + 256 * x[7] + 65536 * x[8] ]
\* vec_from_bytes::<TrieNode> and vec_from_bytes::<u32> (crate::bytes): the
\* bytes as a vector of elements
NodesFromBytes(x) ==
  [k \in 1 .. Len(x) \div NODE_SIZE |->
     NodeFromBytes(SubSeq(x, NODE_SIZE * (k - 1) + 1, NODE_SIZE * k))]
OffsetsFromBytes(x) == [k \in 1 .. Len(x) \div 4 |-> U32At(x, 4 * (k - 1))]

\* bytes[from..to], 0-based and exclusive of `to`
Slice(bytes, from, to) == SubSeq(bytes, from + 1, to)

\* the token data that from_bytes takes: &bytes[offsets_end..]
TokenDataRegion(bytes, hd, offsets_end) == Slice(bytes, offsets_end, Len(bytes))

\* from_bytes up to finalize_ctor: does it panic (a failed assert!, a slice
\* out of range)?
FromBytesPanics(bytes) ==
  \/ Len(bytes) < HD_SIZE
  \/ LET hd == ParseHeader(bytes)
         trie_end == HD_SIZE + hd.trie_bytes
         offsets_end == trie_end + hd.token_offset_bytes
     IN \/ hd.magic # MAGIC
        \/ hd.hd_size # HD_SIZE
        \/ trie_end > Len(bytes)
        \/ offsets_end > Len(bytes)

\* the TokTrie that from_bytes hands to finalize_ctor
FromBytes(bytes) ==
  LET hd == ParseHeader(bytes)
      trie_end == HD_SIZE + hd.trie_bytes
      offsets_end == trie_end + hd.token_offset_bytes
  IN [ info |-> from_bin(hd.info),
       token_offsets |-> OffsetsFromBytes(Slice(bytes, trie_end, offsets_end)),
       token_data |-> TokenDataRegion(bytes, hd, offsets_end),
       nodes |-> NodesFromBytes(Slice(bytes, HD_SIZE, trie_end)),
       max_token_len |-> 0,
       token_duplicates |-> <<>> ]

\* the trie is serialized
serialize_trie ==
  /\ pc = "ready"
  /\ blob' = Serialize(trie)
  /\ orig' = trie
  /\ op' = [name |-> "serialize", kind |-> "none"]
  /\ pc' = "serialized"
  /\ UNCHANGED << rec, toks >>
  /\ UNCHANGED BuiltVars
  /\ UNCHANGED BuildVars

\* with(bytes, off, x): the bytes with the u32 at off replaced by x
WithU32(bytes, off, x) ==
  [i \in 1 .. Len(bytes) |->
     IF i > off /\ i <= off + 4 THEN U32LE(x)[i - off] ELSE bytes[i]]

\* what is handed to from_bytes: the serialized trie, and damaged copies
LoadInputs(bytes) ==
  LET hd == ParseHeader(bytes)
      trie_end == HD_SIZE + hd.trie_bytes
      offsets_end == trie_end + hd.token_offset_bytes
      cuts == {0, HD_SIZE - 1, HD_SIZE, trie_end - 1, trie_end,
               offsets_end - 1, offsets_end, Len(bytes) - 1}
  IN {[kind |-> "serialized", bytes |-> bytes],
      [kind |-> "magic", bytes |-> WithU32(bytes, 0, MAGIC + 1)],
      [kind |-> "hd_size", bytes |-> WithU32(bytes, 4, HD_SIZE + 4)],
      [kind |-> "trie_bytes",
       bytes |-> WithU32(bytes, 8, hd.trie_bytes + NODE_SIZE * Len(bytes))],
      [kind |-> "data_len",
       bytes |-> WithU32(bytes, 16, Len(bytes) - offsets_end)]}
     \cup {[kind |-> "cut", bytes |-> Prefix(bytes, n)] :
             n \in {m \in cuts : m >= 0 /\ m < Len(bytes)}}

\* from_bytes(bytes) up to the call of finalize_ctor
from_bytes ==
  /\ pc = "serialized"
  /\ \E input \in LoadInputs(blob) :
       /\ op' = [name |-> "from_bytes", kind |-> input.kind, bytes |-> input.bytes]
       /\ IF FromBytesPanics(input.bytes)
            THEN pc' = "panic" /\ UNCHANGED << trie, fin >>
            ELSE pc' = "finalize" /\ trie' = FromBytes(input.bytes) /\ fin' = 0
  /\ UNCHANGED << profile, words, gt, rec, toks, blob, orig >>
  /\ UNCHANGED BuildVars

Codec ==
  \/ serialize_trie
  \/ from_bytes

\* TokTrie::from (and the finalize_ctor that from_bytes shares with it)
Build ==
  \/ from_word
  \/ insert_step
  \/ from_push
  \/ from_serialize
  \/ serialize_child
  \/ serialize_overflow_panic
  \/ serialize_overflow_wrap
  \/ serialize_return
  \/ finalize_tok
  \/ finalize_after
  \/ finalize_validate
  \/ greedy_some
  \/ greedy_last

\* the trie built from a vocabulary, then one recognizer-driven query
Init == InitWith(BiasVocabs)
Next == Build \/ Bias
Spec == Init /\ [][Next]_vars

\* the trie built from a vocabulary, then greedy_tokenize of an input
InitGreedy == InitWith(GreedyVocabs)
NextGreedy == Build \/ Greedy
SpecGreedy == InitGreedy /\ [][NextGreedy]_vars

\* the trie built from a vocabulary, serialized, and loaded again
InitCodec == InitWith(CodecVocabs)
NextCodec == Build \/ Codec
SpecCodec == InitCodec /\ [][NextCodec]_vars

\* the trie built from a vocabulary, then get_special_tokens
InitSpecial == InitWith(SmallVocabs \cup SpecialVocabs \cup {LongVocab})
NextSpecial == Build \/ Special
SpecSpecial == InitSpecial /\ [][NextSpecial]_vars

\* the trie built from a vocabulary, then compute_bias_ext
InitCompute == InitWith(SmallVocabs \cup ScenarioVocabs \cup {LongDupVocab})
NextCompute == Build \/ Compute
SpecCompute == InitCompute /\ [][NextCompute]_vars

\* the trie built from a vocabulary, then chop_tokens
InitChop == InitWith(SmallVocabs \cup ScenarioVocabs \cup {LongEmptyVocab})
NextChop == Build \/ Chop
SpecChop == InitChop /\ [][NextChop]_vars

\* the trie built from a vocabulary, then one call of append_tokens
InitAppend == InitWith(SmallVocabs \cup ScenarioVocabs \cup {LongEmptyVocab})
NextAppend == Build \/ AppendTokens
SpecAppend == InitAppend /\ [][NextAppend]_vars

\* ------------------------------------------------------------------------
\* Properties of add_bias, has_valid_extensions and token_allowed
\* ------------------------------------------------------------------------

\* the tokens that label a node of the trie
Labels == {node_token_id(trie.nodes[q]) : q \in 1 .. Len(trie.nodes)} \ {NONE}

\* a query has returned
Returned(name) == pc = "done" /\ op.name = name

\* the recognizer in its state at the call accepts s byte after byte
AcceptsAll(rej, s) == \A k \in 1 .. Len(s) : Prefix(s, k) \notin rej

\* (a) the tokens strictly below the node of start whose bytes after start
\* are accepted one after another
BelowStartAccepted ==
  {t \in Labels :
     /\ IsPrefix(op.start, token(trie, t))
     /\ Len(token(trie, t)) > Len(op.start)
     /\ AcceptsAll(rec.rej, SubSeqFrom(token(trie, t), Len(op.start) + 1))}

\* (b) the tokens that are a non-empty prefix of start
PrefixesOfStart ==
  {t \in Labels : token(trie, t) # <<>> /\ IsPrefix(token(trie, t), op.start)}

\* C1: when add_bias returns, the token bits set are the ones set before,
\* the tokens below start that the recognizer accepts byte after byte, and
\* the tokens that are non-empty prefixes of start, and nothing else
C1_AddBiasSetsExactly ==
  Returned("add_bias") =>
    toks = op.toks0 \cup BelowStartAccepted \cup PrefixesOfStart

\* C2: add_bias with an empty start calls trie_finished() with every byte it
\* pushed popped again, and has not popped more than it pushed
C2_AddBiasPopBalance ==
  (Returned("add_bias") /\ op.start = <<>> /\ op.node # NONE) =>
    (rec.fin_depth = 0 /\ ~rec.pop_err)

\* C3: has_valid_extensions returns true exactly when add_bias, from the same
\* recognizer state and start and on an empty token set, leaves a token allowed
C3_HveAgreesWithAddBias ==
  (Returned("has_valid_extensions") /\ op.after = "add_bias") =>
    (op.ok <=> toks # {})

\* C4: has_valid_extensions with an empty start calls trie_finished() with no
\* byte of this traversal still pushed, whatever it returns
C4_HveFinishedBalanced ==
  (Returned("has_valid_extensions") /\ op.start = <<>> /\ op.node # NONE) =>
    (rec.fin_depth = 0 /\ ~rec.pop_err)

\* C5: no pop_bytes(n) of add_bias, has_valid_extensions or token_allowed
\* asks for more bytes than the call has pushed and not yet popped
C5_PopsMatchedAgainstPushes == ~rec.pop_err

\* the same statements on the tries whose stored pop counts did not wrap
NoWrap == profile # "release"
AddBiasExactNoWrap == NoWrap => C1_AddBiasSetsExactly
AddBiasBalanceNoWrap == NoWrap => C2_AddBiasPopBalance

\* ------------------------------------------------------------------------
\* Properties of greedy_tokenize
\* ------------------------------------------------------------------------

\* every single byte value is a token of the vocabulary
AllBytesAreTokens == \A x \in Byte : \E i \in 1 .. Len(words) : words[i] = <<x>>

\* C6: when every single byte is a token, the tokens greedy_tokenize returns
\* decode to the bytes it was given
C6_GreedyReconstructsInput ==
  (Returned("greedy_tokenize") /\ AllBytesAreTokens) =>
    decode_raw(trie, gt.r) = gt.bytes

\* C7: greedy_tokenize called on an input never panics and never emits more
\* tokens than the input has bytes
C7_GreedyTerminatesOrReports ==
  gt.ret = "query" => (pc # "panic" /\ Len(gt.r) <= Len(gt.bytes))

\* greedy_tokenize is back at the root with the loop variables it had there
\* before, one more token emitted
GreedyRepeats ==
  /\ pc = "greedy_loop" /\ gt.ret = "query"
  /\ gt.n = 0 /\ gt.idx = gt.last_idx + 1 /\ gt.idx < Len(gt.bytes)
  /\ child_at_byte(trie.nodes, 0, gt.bytes[gt.idx + 1]) = NONE
  /\ Len(gt.r) > Len(gt.bytes)

\* ------------------------------------------------------------------------
\* Properties of serialize and from_bytes
\* ------------------------------------------------------------------------

\* from_bytes was given exactly what serialize returned
LoadedSerialized == op.name = "from_bytes" /\ op.kind = "serialized"

\* C8: from_bytes of what serialize returned does not fail, and the trie it
\* yields has the nodes, descriptors, token data, vocab_size and tok_eos of
\* the serialized one, and after finalize_ctor its max_token_len and duplicates
C8_RoundTrip ==
  LoadedSerialized =>
    /\ pc # "panic"
    /\ trie.nodes = orig.nodes
    /\ trie.token_offsets = orig.token_offsets
    /\ trie.token_data = orig.token_data
    /\ trie.info.vocab_size = orig.info.vocab_size
    /\ trie.info.tok_eos = orig.info.tok_eos
    /\ pc = "loaded" =>
         /\ trie.max_token_len = orig.max_token_len
         /\ trie.token_duplicates = orig.token_duplicates

\* a trie with a duplicate token and a branching node has been loaded back
C8_RoundTripReached ==
  /\ LoadedSerialized
  /\ pc = "loaded"
  /\ Len(trie.nodes) >= 4
  /\ trie.token_duplicates # <<>>
  /\ trie.info.tok_eos # 0

\* C9: the header serialize writes has token_data_bytes = len(token_data),
\* trie_bytes = 8 * node count and token_offset_bytes = 4 * vocab_size
C9_HeaderFields ==
  pc = "serialized" =>
    /\ U32At(blob, 16) = Len(trie.token_data)
    /\ U32At(blob, 8) = NODE_SIZE * Len(trie.nodes)
    /\ U32At(blob, 12) = 4 * trie.info.vocab_size

\* the header of the input is readable and its magic or hd_size is wrong, or
\* the three regions it declares do not fit in the input
BadFormat(bytes) ==
  /\ Len(bytes) >= HD_SIZE
  /\ \/ U32At(bytes, 0) # MAGIC
     \/ U32At(bytes, 4) # HD_SIZE
     \/ HD_SIZE + U32At(bytes, 8) + U32At(bytes, 12) + U32At(bytes, 16)
          > Len(bytes)

\* C10: from_bytes given an input with a wrong magic, a wrong hd_size or a
\* declared region past the end of the input returns the BadFormat error
C10_BadFormatIsReturned ==
  (op.name = "from_bytes" /\ BadFormat(op.bytes)) => pc = "bad_format"

\* ------------------------------------------------------------------------
\* Properties of get_special_tokens
\* ------------------------------------------------------------------------

\* the tokens that label a node strictly below the 0xFF child of the root
SpecialLabels ==
  {t \in Labels :
     Len(token(trie, t)) >= 2 /\ token(trie, t)[1] = SPECIAL_TOKEN_PREFIX_BYTE}

\* C11: get_special_tokens returns every token below the 0xFF child of the
\* root, each once, and nothing else; it fails only when the root has no
\* 0xFF child
C11_SpecialTokensComplete ==
  op.name = "get_special_tokens" =>
    /\ pc = "done" =>
         /\ Range(op.res) = SpecialLabels
         /\ Len(op.res) = Cardinality(SpecialLabels)
    /\ pc = "panic" =>
         child_at_byte(trie.nodes, 0, SPECIAL_TOKEN_PREFIX_BYTE) = NONE

\* ------------------------------------------------------------------------
\* Properties of compute_bias_ext
\* ------------------------------------------------------------------------

\* the ids with the bytes of token t
SameBytes(t) == {u \in 0 .. Len(words) - 1 : words[u + 1] = words[t + 1]}

\* the ids whose non-empty bytes several ids share
Shared == {t \in 0 .. Len(words) - 1 :
             words[t + 1] # <<>> /\ Cardinality(SameBytes(t)) > 1}

\* TokTrie::from has returned the trie
Constructed == pc \in {"ready", "cb_clear", "cb_eos", "cb_add_bias", "bias_loop", "done"}

\* the id that labels the node of t's bytes is the last of the ids with
\* those bytes, and the duplicate map holds the others under it
DuplicatesRecorded ==
  \A t \in Shared :
    LET last == CHOOSE u \in SameBytes(t) : \A v \in SameBytes(t) : v <= u
    IN /\ SameBytes(t) \cap Labels = {last}
       /\ last \in DOMAIN trie.token_duplicates
       /\ Range(trie.token_duplicates[last]) = SameBytes(t) \ {last}

\* the recognizer accepts, after start, the rest of the bytes of token t
AcceptedAfterStart(t) ==
  /\ IsPrefix(op.start, words[t + 1])
  /\ Len(words[t + 1]) > Len(op.start)
  /\ AcceptsAll(rec.rej, SubSeqFrom(words[t + 1], Len(op.start) + 1))

\* C12: of the ids that share non-empty bytes the last one labels the node and
\* the duplicate map holds the others as its aliases; compute_bias_ext sets
\* the bit of every id of the group when the recognizer accepts the bytes
C12_DuplicatesMirrored ==
  /\ Constructed => DuplicatesRecorded
  /\ Returned("compute_bias_ext") =>
       \A t \in Shared : AcceptedAfterStart(t) => t \in toks

\* the same on the tries whose stored pop counts did not wrap
DuplicatesMirroredNoWrap == NoWrap => C12_DuplicatesMirrored

\* compute_bias_ext is running or has returned
InCompute ==
  \/ op.name = "compute_bias_ext"
  \/ op.name = "add_bias" /\ op.caller = "compute_bias_ext"

\* C13: compute_bias_ext clears the set first; it asks special_allowed at
\* most once, only for an empty start and before the traversal; going into
\* add_bias the set is {tok_eos} when start is empty and the answer was yes
\* and empty otherwise, and a tok_eos set on that account is set at the end
C13_EosRule ==
  InCompute =>
    /\ rec.asked <= 1
    /\ rec.asked = 1 => (op.start = <<>> /\ ~rec.asked_late)
    /\ (op.start = <<>> /\ pc \notin {"cb_clear", "cb_eos"}) => rec.asked = 1
    /\ pc = "cb_eos" => toks = {}
    /\ pc = "cb_add_bias" =>
         toks = IF op.start = <<>> /\ rec.special THEN {trie.info.tok_eos}
                ELSE {}
    /\ (pc = "done" /\ op.start = <<>> /\ rec.special) =>
         trie.info.tok_eos \in toks

\* compute_bias_ext has returned with tok_eos set for an empty start and the
\* recognizer's yes, next to a token from the walk
C13_EosSetReached ==
  /\ Returned("compute_bias_ext")
  /\ op.start = <<>> /\ rec.special /\ rec.asked = 1
  /\ trie.info.tok_eos \in toks
  /\ Cardinality(toks) >= 2
  /\ trie.info.tok_eos \notin BelowStartAccepted

\* ------------------------------------------------------------------------
\* Properties of chop_tokens
\* ------------------------------------------------------------------------

\* the bytes of the last k of the tokens handed to chop_tokens
SuffBytes(k) ==
  decode_raw(trie, SubSeqFrom(op.tokens, Len(op.tokens) - k + 1))

\* some token strictly extends start by bytes the recognizer accepts one
\* after another from its state
ValidExtensions(start, rej) ==
  \E t \in Labels :
    /\ IsPrefix(start, token(trie, t))
    /\ Len(token(trie, t)) > Len(start)
    /\ AcceptsAll(rej, SubSeqFrom(token(trie, t), Len(start) + 1))

\* the counts k whose suffix is short enough and has valid extensions
Choppable ==
  {k \in 1 .. Len(op.tokens) :
     /\ Len(SuffBytes(k)) <= trie.max_token_len
     /\ ValidExtensions(SuffBytes(k), rec.rej)}

\* C14: chop_tokens returns the largest count k of trailing tokens whose
\* bytes are at most max_token_len long and have valid extensions, with the
\* length of those bytes, and (0, 0) when there is no such k
C14_ChopLongestSuffix ==
  Returned("chop_tokens") =>
    IF Choppable = {}
      THEN op.chop_tokens = 0 /\ op.chop_bytes = 0
      ELSE LET k == CHOOSE j \in Choppable : \A i \in Choppable : i <= j
           IN op.chop_tokens = k /\ op.chop_bytes = Len(SuffBytes(k))

\* chop_tokens has returned 1 for two tokens whose bytes together are short
\* enough to have been probed, with a recognizer that refuses something
C14_ChopOneOfTwoReached ==
  /\ Returned("chop_tokens")
  /\ Len(op.tokens) = 2
  /\ op.chop_tokens = 1 /\ op.chop_bytes > 0
  /\ Len(SuffBytes(2)) <= trie.max_token_len
  /\ rec.rej # {}

\* ------------------------------------------------------------------------
\* C15
\* ------------------------------------------------------------------------

\* the bytes of the tokens handed to append_tokens, in order
AppendStream == decode_raw(trie, op.ts)

\* the positions of AppendStream whose byte the recognizer refuses when all
\* the bytes before it have been pushed
Refused == {j \in 1 .. Len(AppendStream) : Prefix(AppendStream, j) \in rec.rej}

\* the number of tokens of op.ts that end before position j of AppendStream
TokensBefore(j) ==
  Cardinality({n \in 1 .. Len(op.ts) :
                 Len(decode_raw(trie, Prefix(op.ts, n))) < j})

\* C15: append_tokens pushes the bytes of its tokens in order, one
\* try_push_byte each, and calls collapse() once at the end of each token.
\* At the first refused byte it tries no further byte, calls collapse() once
\* more, which commits the bytes pushed so far, and fails with that byte;
\* with no refused byte it succeeds with every token committed.
C15_AppendStopsAtFirstRefusal ==
  Returned("append_tokens") =>
    /\ rec.stack = <<>>
    /\ rec.started = 0 /\ rec.finished = 0 /\ ~rec.pop_err
    /\ IF Refused = {}
         THEN /\ ~op.err
              /\ rec.committed = AppendStream
              /\ rec.calls = Len(AppendStream)
              /\ rec.collapsed = Len(op.ts)
         ELSE LET j == CHOOSE x \in Refused : \A y \in Refused : x <= y
              IN /\ op.err /\ op.byte = AppendStream[j]
                 /\ rec.committed = Prefix(AppendStream, j - 1)
                 /\ rec.calls = j
                 /\ rec.collapsed = TokensBefore(j) + 1

\* append_tokens has failed in its second token after pushing a byte of it
C15_SecondTokenRefusedReached ==
  /\ Returned("append_tokens")
  /\ op.err /\ op.k = 1 /\ op.i > 0
  /\ rec.collapsed = 2
  /\ Len(rec.committed) > Len(token(trie, op.ts[1]))


\* ------------------------------------------------------------------------
\* C16
\* ------------------------------------------------------------------------

\* C16: in add_bias, has_valid_extensions and token_allowed, trie_started()
\* is called at most once and before any try_push_byte or pop_bytes,
\* trie_finished() at most once and after all of them, and a call that has
\* made any of them has called both by the time it returns
C16_TraversalBracketed ==
  /\ rec.started <= 1 /\ rec.finished <= 1
  /\ rec.started = 1 => rec.start_calls = 0
  /\ rec.calls > 0 => rec.started = 1
  /\ rec.finished = 1 => rec.started = 1 /\ rec.fin_calls = rec.calls
  /\ pc = "done" /\ rec.calls > 0 => rec.finished = 1

\* has_valid_extensions has left its loop early, on an accepted token with
\* nodes still to visit and bytes still pushed, after a refused byte
C16_EarlyExitReached ==
  /\ Returned("has_valid_extensions")
  /\ op.ok /\ op.p < op.endp
  /\ rec.finished = 1 /\ rec.fin_depth > 0
  /\ rec.calls > 2

\* ------------------------------------------------------------------------
\* C17
\* ------------------------------------------------------------------------

\* the edge bytes on the path from the node at `from` (exclusive) to the
\* parent of the node at p (inclusive): the bytes of the nodes between the
\* two whose subtree holds p
PathBytes(nodes, from, p) ==
  LET offs == [k \in 1 .. p - from - 1 |-> from + k]
      OnPath(a) == p < next_node(nodes, a)
      anc == SelectSeq(offs, OnPath)
  IN [k \in 1 .. Len(anc) |-> node_at(nodes, anc[k]).byte]

PushedIsPath ==
  (\E at \in TraversalLoops : InLoop(at)) =>
    LoopPopped.stack = PathBytes(trie.nodes, op.node, op.p)

\* C17: whenever add_bias_inner or the loop of has_valid_extensions is about
\* to call try_push_byte for the node at p, the bytes the traversal has
\* pushed and not popped are the edge bytes from the start node to the
\* parent of that node
C17_PushedBytesArePath == PushedIsPath

\* the same on the tries whose stored pop counts did not wrap
PushedIsPathNoWrap == NoWrap => PushedIsPath

\* each step of a traversal's loop moves on to a later node
TriedAtMostOnce ==
  [][\A at \in TraversalLoops : pc = at /\ pc' = at => op'.p > op.p]_vars

\* ------------------------------------------------------------------------
\* C18
\* ------------------------------------------------------------------------

\* the number of edges from the root to the node at offset q, the nodes
\* being in pre-order; the offset after the last node counts as a child of
\* the root
Depth(nodes, q) ==
  IF q >= Len(nodes) THEN 1
  ELSE Cardinality({a \in 0 .. q - 1 : q < next_node(nodes, a)})

\* the bytes to pop after the leaf at q to be at the parent of the next node
\* in pre-order: 1 for a non-last child, one more than its parent's for a
\* last child
PopsAfter(nodes, q) == Depth(nodes, q) - Depth(nodes, q + 1) + 1

Leaves(nodes) ==
  {q \in 1 .. Len(nodes) - 1 : node_at(nodes, q).subtree_size = 1}

PopCountsExact ==
  pc = "ready" =>
    /\ node_at(trie.nodes, 0).num_parents = 0
    /\ \A q \in Leaves(trie.nodes) :
         node_at(trie.nodes, q).num_parents = PopsAfter(trie.nodes, q)

\* C18: TokTrie::from builds the trie of every vocabulary of tokens shorter
\* than 1024 bytes, and each leaf of it stores the exact number of bytes to
\* pop after it
C18_PopCountsExact == pc # "panic" /\ PopCountsExact

\* the stored pop counts are exact in every trie built with none of them
\* reaching 256
PopCountsExactNoWrap == NoWrap => PopCountsExact

=============================================================================
